---- MODULE Spec2Model ----
(***************************************************************************)
(* HR-RAG-BOT: the role-partitioned vector index, the ingestion pipeline   *)
(* (SERVER/docs) and the answer synthesizer (SERVER/chat).                 *)
(*                                                                         *)
(* Strings that the code trims, joins or sorts are sequences of one-      *)
(* character strings; fixed literals are single pieces.  A passage id      *)
(* f"{doc_id}_{i}" is the pair <<doc_id, i>> (the formatting is injective: *)
(* i is a decimal integer after the last underscore).                      *)
(*                                                                         *)
(* Spec and SpecRerun take a file of an ingestion call in one step.        *)
(* SpecConc follows two server processes from module initialisation        *)
(* through one upload call each, one step per await, and SpecBatch one     *)
(* call with one large file, upsert batch by upsert batch.  SpecChat asks  *)
(* one question of a partition of several passages, and SpecSignup follows *)
(* the signup and delete-user requests of SERVER/auth, one step per await. *)
(***************************************************************************)
EXTENDS Integers, Sequences, FiniteSets, TLC

\* ---------------------------------------------------------------- bounds
MaxCalls == 2      \* ingestion calls in one behaviour
MaxFiles == 2      \* files in one ingestion call
MaxChunks == 1     \* chunks the splitter yields for one file
MaxVectors == 201  \* chunks of the one large file of the batching specification
MaxStored == 6     \* passages in the partition of the chat specification
MaxRequests == 2   \* signup and delete-user requests in one behaviour

\* ------------------------------------------------------ program constants
batch_size == 100
top_k == 5
min_length == 1      \* of the chat message (Form)
max_length == 2000
max_team_leads == 4  \* "Maximum 4 Team Leads allowed"

\* a role check that lets every name through
any_role == {"Employee", "Team Lead", "HR Executive", "HR Manager", "Intern"}

valid_roles == {"Employee", "Team Lead", "HR Executive", "HR Manager"}
VALID_ROLES == {"Employee", "Team Lead", "HR Executive", "HR Manager"}

\* the roles a user can have (SignUpRequest.role)
Roles == {"Employee", "Team Lead", "HR Executive", "HR Manager"}

FALLBACK_ANSWER == "I'm sorry, I don't have access to that information or it's not covered in the available HR documents."
FAILURE_ANSWER == "Sorry, something went wrong while processing your HR query. Please try again later."
CHAT_500_DETAIL == "Sorry, we couldn't process your HR question right now. Please try again later."
SOURCES_PREFIX == "\n\n**Sources:** "

\* ------------------------------------------------------------ input sets
\* UploadFile.filename is Optional[str]: None is no character sequence
None == <<"None">>
\* a local variable that no assignment has reached yet
UNBOUND == <<"UNBOUND">>
NoRole == "None"

\* file names, as character sequences ("ab" sorts before "b", but is longer)
FileNames == {<<"a", "b">>, <<"b">>}
\* chunk texts, as the splitter hands them over: a word and a whitespace-only text
Texts == {<<"a">>, <<" ", " ">>}
\* target roles submitted to the upload form ("Intern" is not a role)
AccessRoleInputs == {"Employee", "HR Manager", "Intern"}
\* chat messages: a question, a whitespace-only message and the empty message
Messages == {<<"q", " ">>, <<" ">>, <<>>}
\* what the language model may reply
LLMContents == {<<"A", " ">>}

\* ------------------------------------------------------- string helpers
Min(a, b) == IF a < b THEN a ELSE b

Range(s) == {s[i] : i \in 1..Len(s)}

Ord(c) == CASE c = " " -> 32
            [] c = "," -> 44
            [] c = "A" -> 65
            [] c = "a" -> 97
            [] c = "b" -> 98
            [] c = "q" -> 113
            [] OTHER -> 0

IsSpace(c) == Ord(c) = 32

RECURSIVE LStrip(_)
LStrip(s) == IF s = <<>> THEN <<>>
             ELSE IF IsSpace(Head(s)) THEN LStrip(Tail(s)) ELSE s

RECURSIVE RStrip(_)
RStrip(s) == IF s = <<>> THEN <<>>
             ELSE IF IsSpace(s[Len(s)]) THEN RStrip(SubSeq(s, 1, Len(s) - 1)) ELSE s

\* str.strip()
Strip(s) == RStrip(LStrip(s))

\* Python's str ordering: code point by code point, a proper prefix first
RECURSIVE StrLess(_, _)
StrLess(s, t) == IF t = <<>> THEN FALSE
                 ELSE IF s = <<>> THEN TRUE
                 ELSE IF Ord(Head(s)) # Ord(Head(t)) THEN Ord(Head(s)) < Ord(Head(t))
                 ELSE StrLess(Tail(s), Tail(t))

\* a sort by length instead of by code point
SortedByLength(S) ==
    CHOOSE s \in [1..Cardinality(S) -> S] :
        /\ Range(s) = S
        /\ \A i, j \in 1..Cardinality(S) : i < j => Len(s[i]) <= Len(s[j])

\* sorted(set_of_str)
RECURSIVE sorted(_)
sorted(S) == IF S = {} THEN <<>>
             ELSE LET m == CHOOSE x \in S : \A y \in S \ {x} : StrLess(x, y)
                  IN <<m>> \o sorted(S \ {m})

\* ', '.join(list_of_str)
RECURSIVE join(_)
join(l) == IF l = <<>> THEN <<>>
           ELSE IF Len(l) = 1 THEN l[1]
           ELSE l[1] \o <<",", " ">> \o join(Tail(l))


\* ------------------------------------------------------------ the state
VARIABLES
    index,          \* the Pinecone index: vectors [ns, id, text, source, doc_id, role]
    upload_dir,     \* paths that exist under UPLOAD_DIR
    call,           \* the ingestion call in flight (load_vectorstore_async)
    uuid_count,     \* uuid4 values drawn so far
    ncalls,         \* ingestion calls started so far
    response,       \* what the last handler or step returned, raised or logged
    upserted_roles, \* history: namespaces that ever received an upsert
    prev,           \* history: the last ingestion call that ended
    backing,        \* the Pinecone index of name PINECONE_INDEX_NAME: absent, creating, ready
    procs,          \* the server processes: module initialisation, then one ingestion call each
    disk,           \* what the file at each path under UPLOAD_DIR holds
    users,          \* users_collection: documents [id, username, email, role, is_verified]
    reqs            \* the signup and delete-user requests: where each one stands

vars == <<index, upload_dir, call, uuid_count, ncalls, response, upserted_roles, prev,
          backing, procs, disk, users, reqs>>

\* the user collection and the requests on it, left alone by the other handlers
auth_vars == <<users, reqs>>

\* the state of the running server processes, left alone by a single request handler
server_vars == <<backing, procs, disk>>

\* ------------------------------------------------------------ the index
Namespace(idx, ns) == {v \in idx : v.ns = ns}

Ids(idx, ns) == {v.id : v \in Namespace(idx, ns)}

\* an upsert that names no namespace and so writes to one fixed partition
upsert_one_partition(idx, b, ns) ==
    {v \in idx : ~(v.ns = "Employee" /\ \E i \in 1..Len(b) : b[i].id = v.id)}
    \cup {[ns |-> "Employee", id |-> b[i].id, text |-> b[i].metadata.text,
           source |-> b[i].metadata.source, doc_id |-> b[i].metadata.doc_id,
           role |-> b[i].metadata.role] : i \in 1..Len(b)}

\* index.upsert(vectors=b, namespace=ns): a vector with a stored id replaces it
upsert(idx, b, ns) ==
    {v \in idx : ~(v.ns = ns /\ \E i \in 1..Len(b) : b[i].id = v.id)}
    \cup {[ns |-> ns, id |-> b[i].id, text |-> b[i].metadata.text,
           source |-> b[i].metadata.source, doc_id |-> b[i].metadata.doc_id,
           role |-> b[i].metadata.role] : i \in 1..Len(b)}

\* the injective sequences of length n over S: the rankings an index query may return
RECURSIVE Rankings(_, _)
Rankings(S, n) ==
    IF n = 0 \/ S = {} THEN {<<>>}
    ELSE UNION {{<<v>> \o r : r \in Rankings(S \ {v}, n - 1)} : v \in S}

\* a query that names no namespace
query_everywhere(idx, k, user_role) == Rankings(idx, Min(k, Cardinality(idx)))

\* index.query(vector=embedding, top_k=k, include_metadata=True, namespace=user_role):
\* the k nearest vectors of that namespace (all of them when it holds fewer), in
\* an order the similarity scores decide
index_query(idx, k, user_role) ==
    Rankings(Namespace(idx, user_role), Min(k, Cardinality(Namespace(idx, user_role))))

\* ------------------------------------------------------- answer_query
\* a loop that puts each kept text in front of the earlier ones
RECURSIVE context_parts_reversed(_)
context_parts_reversed(matches) ==
    IF matches = <<>> THEN <<>>
    ELSE LET text_chunk == Head(matches).text
         IN context_parts_reversed(Tail(matches))
            \o (IF Strip(text_chunk) # <<>> THEN <<Strip(text_chunk)>> ELSE <<>>)

\* the loop over matches: context_parts and the sources set
RECURSIVE context_parts(_)
context_parts(matches) ==
    IF matches = <<>> THEN <<>>
    ELSE LET text_chunk == Head(matches).text
         IN (IF Strip(text_chunk) # <<>> THEN <<Strip(text_chunk)>> ELSE <<>>)
            \o context_parts(Tail(matches))

sources_of(matches) ==
    {matches[i].source : i \in {j \in 1..Len(matches) : Strip(matches[j].text) # <<>>}}

\* "\n\n".join(context_parts)
RECURSIVE join_context(_)
join_context(parts) ==
    IF parts = <<>> THEN <<>>
    ELSE IF Len(parts) = 1 THEN parts[1]
    ELSE parts[1] \o <<"\n", "\n">> \o join_context(Tail(parts))

Returned(answer, sources, matches, llm_called, context) ==
    [raised |-> FALSE, failed |-> FALSE, answer |-> answer, sources |-> sources,
     matches |-> matches, llm_called |-> llm_called, context |-> context]

Raised(matches, llm_called, context) ==
    [raised |-> TRUE, failed |-> TRUE, answer |-> <<>>, sources |-> <<>>,
     matches |-> matches, llm_called |-> llm_called, context |-> context]

\* f"\n\n**Sources:** {', '.join(sorted(sources))}"
sources_line(sources) == <<SOURCES_PREFIX>> \o join(sorted(sources))

\* the body of the try block; env is what the embedding provider, the index
\* and the language model do in this call
answer_query_try(query, user_role, env) ==
    IF env.fault = "embed" THEN Raised(<<>>, FALSE, <<>>)
    ELSE IF env.fault = "query" THEN Raised(<<>>, FALSE, <<>>)
    ELSE LET matches == env.matches
         IN IF matches = <<>>
            THEN Returned(<<FALLBACK_ANSWER>>, <<>>, matches, FALSE, <<>>)
            ELSE LET parts == context_parts(matches)
                     sources == sources_of(matches)
                     context == join_context(parts)
                 IN IF parts = <<>>
                    THEN Returned(<<FALLBACK_ANSWER>>, <<>>, matches, FALSE, <<>>)
                    ELSE IF env.fault = "llm"
                    THEN Raised(matches, TRUE, context)
                    ELSE LET final_answer == Strip(env.content)
                         IN Returned(
                               IF sources # {} THEN final_answer \o sources_line(sources)
                                               ELSE final_answer,
                               sorted(sources), matches, TRUE, context)

\* answer_query without its except clause
answer_query_no_except(query, user_role, env) == answer_query_try(query, user_role, env)

\* try ... except Exception: the fixed failure answer
answer_query(query, user_role, env) ==
    LET r == answer_query_try(query, user_role, env)
    IN IF r.raised
       THEN [r EXCEPT !.raised = FALSE, !.answer = <<FAILURE_ANSWER>>, !.sources = <<>>]
       ELSE r

QueryFaults == {"none", "embed", "query", "llm"}

\* a chat handler without the check of the trimmed message
hr_chat_unchecked(message, user_role, env) ==
    LET result == answer_query(Strip(message), user_role, env)
    IN [op |-> "hr_chat", status |-> 200, answer |-> result.answer,
        sources |-> result.sources, user_role |-> user_role,
        query |-> Strip(message), failed |-> result.failed,
        matches |-> result.matches, llm_called |-> result.llm_called,
        context |-> result.context]

\* POST /chat
hr_chat(message, user_role, env) ==
    LET cleaned_message == Strip(message)
    IN IF cleaned_message = <<>>
       THEN [op |-> "hr_chat", status |-> 400, detail |-> "Please enter a valid question",
             message |-> message]
       ELSE LET result == answer_query(cleaned_message, user_role, env)
            IN IF result.raised
               THEN [op |-> "hr_chat", status |-> 500, detail |-> CHAT_500_DETAIL,
                     user_role |-> user_role, query |-> cleaned_message,
                     failed |-> result.failed, matches |-> result.matches,
                     llm_called |-> result.llm_called, context |-> result.context]
               ELSE [op |-> "hr_chat", status |-> 200, answer |-> result.answer,
                     sources |-> result.sources, user_role |-> user_role,
                     query |-> cleaned_message, failed |-> result.failed,
                     matches |-> result.matches, llm_called |-> result.llm_called,
                     context |-> result.context]

\* the request as FastAPI hands it to hr_chat: message is Form(..., min_length=1,
\* max_length=2000), and a message outside these bounds is answered with 422
\* before the body of hr_chat runs
post_chat(message, user_role, env) ==
    IF Len(message) < min_length \/ Len(message) > max_length
    THEN [op |-> "hr_chat", status |-> 422, detail |-> "validation error",
          message |-> message]
    ELSE hr_chat(message, user_role, env)

\* ------------------------------------------------- load_vectorstore_async
\* an uploaded file: its name, what PyPDFLoader loads from it (docs pages) and
\* what the splitter makes of those pages (chunks)
ChunkLists == UNION {[1..n -> Texts] : n \in 0..MaxChunks}

Files ==
    {[filename |-> None, docs |-> 0, chunks |-> <<>>]}
    \cup {f \in [filename : FileNames, docs : 0..1, chunks : ChunkLists] :
             f.docs = 0 => f.chunks = <<>>}

\* ids that differ from one run to the next
ids_per_run(doc_id, chunks) == [i \in 1..Len(chunks) |-> <<doc_id, ncalls * MaxChunks + i - 1>>]

\* ids = [f"{doc_id}_{i}" for i in range(len(chunks))]
ids(doc_id, chunks) == [i \in 1..Len(chunks) |-> <<doc_id, i - 1>>]

\* metadatas = [{"text", "source", "doc_id", "role", ...} for chunk in chunks]
metadatas(file, chunks, role, doc_id) ==
    [i \in 1..Len(chunks) |->
        [text |-> chunks[i], source |-> file.filename, doc_id |-> doc_id, role |-> role]]

\* emb = await embed_model.aembed_query(text): a vector that the text decides
aembed_query(text) == <<"embedding", text>>

\* embeddings = []; for text in texts: embeddings.append(emb)
embeddings_of(chunks) == [i \in 1..Len(chunks) |-> aembed_query(chunks[i])]

\* vectors = list(zip(ids, embeddings, metadatas))
vectors_of(file, role, doc_id) ==
    LET chunks == file.chunks
    IN [i \in 1..Len(chunks) |->
           [id |-> ids(doc_id, chunks)[i], values |-> embeddings_of(chunks)[i],
            metadata |-> metadatas(file, chunks, role, doc_id)[i]]]

\* range(0, total, batch_size), as the number of batches
num_batches(total) == (total + batch_size - 1) \div batch_size

\* a slice that starts one vector late
batch_at_late(vectors, k) ==
    SubSeq(vectors, (k - 1) * batch_size + 2, Min(k * batch_size, Len(vectors)))

\* batch = vectors[i:i + batch_size], for the k-th i of the range
batch_at(vectors, k) ==
    SubSeq(vectors, (k - 1) * batch_size + 1, Min(k * batch_size, Len(vectors)))

\* the upsert loop, run for its first n batches
RECURSIVE upsert_batches(_, _, _, _)
upsert_batches(idx, vectors, role, n) ==
    IF n = 0 THEN idx
    ELSE upsert(upsert_batches(idx, vectors, role, n - 1), batch_at(vectors, n), role)

IngestFaults == {"none", "save", "save_partial", "load", "split", "embed", "upsert"}

\* what the disk, the loader, the splitter, the embedding provider and the
\* index do while one file is processed: the step that fails, if any
IngestEnvs(file) ==
    {e \in [fault : IngestFaults, batch : 1..(num_batches(MaxChunks) + 1)] :
        /\ e.fault = "upsert" => e.batch <= num_batches(Len(file.chunks))
        /\ e.fault # "upsert" => e.batch = 1}

FileResult(idx, dir, save_path, outcome) ==
    [index |-> idx, upload_dir |-> dir, save_path |-> save_path, outcome |-> outcome]

\* except Exception as e: print(...); if save_path.exists(): os.remove(save_path)
\* (save_path is a local of the function: unbound until line 85 has run once)
except_handler(idx, dir, save_path) ==
    IF save_path = UNBOUND
    THEN FileResult(idx, dir, save_path, "raised")
    ELSE FileResult(idx, dir \ {save_path}, save_path, "failed")

\* one iteration of `for file in uploaded_files`
process_file(idx, dir, save_path_in, file, role, doc_id, env) ==
    IF file.filename = None
    THEN except_handler(idx, dir, save_path_in)        \* UPLOAD_DIR / None: TypeError
    ELSE
    LET save_path == file.filename
        saved == dir \cup {save_path}
        vectors == vectors_of(file, role, doc_id)
    IN  IF env.fault = "save" THEN except_handler(idx, dir, save_path)
        ELSE IF env.fault = "save_partial" THEN except_handler(idx, saved, save_path)
        ELSE IF env.fault = "load" THEN except_handler(idx, saved, save_path)
        ELSE IF file.docs = 0
        THEN FileResult(idx, saved \ {save_path}, save_path, "no_documents")
        ELSE IF env.fault = "split" THEN except_handler(idx, saved, save_path)
        ELSE IF file.chunks = <<>>
        THEN FileResult(idx, saved \ {save_path}, save_path, "no_chunks")
        ELSE IF env.fault = "embed" THEN except_handler(idx, saved, save_path)
        ELSE IF env.fault = "upsert"
        THEN except_handler(upsert_batches(idx, vectors, role, env.batch - 1), saved, save_path)
        ELSE FileResult(upsert_batches(idx, vectors, role, num_batches(Len(vectors))),
                        saved \ {save_path}, save_path, "indexed")


\* ------------------------------------------------------------- actions
NoFile == [filename |-> None, docs |-> -1, chunks |-> <<>>]

IdleCall ==
    [active |-> FALSE, via |-> "none", role |-> NoRole, doc_id |-> 0, nfiles |-> 0,
     pos |-> 0, save_path |-> UNBOUND, only_file |-> NoFile, indexed |-> {},
     chunks_ok |-> 0, clean |-> TRUE, failed |-> FALSE]

NewCall(via, role, doc_id, nfiles) ==
    [IdleCall EXCEPT !.active = TRUE, !.via = via, !.role = role, !.doc_id = doc_id,
                     !.nfiles = nfiles]

NoSnapshot ==
    [valid |-> FALSE, doc_id |-> 0, role |-> NoRole, only_file |-> NoFile, ids |-> {},
     size |-> 0, failed |-> FALSE]

\* history: the partition as an ingestion call leaves it
Snapshot(c, idx, failed) ==
    [valid |-> TRUE, doc_id |-> c.doc_id, role |-> c.role, only_file |-> c.only_file,
     ids |-> Ids(idx, c.role), size |-> Cardinality(Namespace(idx, c.role)),
     failed |-> failed]

\* history: the file of a one-file call made with a chosen doc_id
Only(c, file) == IF c.via = "direct" /\ c.nfiles = 1 THEN file ELSE NoFile

\* history: the last two such calls that ended
Ended(p, c, idx, failed) ==
    IF c.via = "direct" /\ c.nfiles = 1
    THEN [last |-> Snapshot(c, idx, failed), before |-> p.last]
    ELSE [last |-> NoSnapshot, before |-> NoSnapshot]

\* the signup and delete-user requests of one behaviour
Requests == 1..MaxRequests

\* a request that has not been made yet
NoRequest ==
    [pc |-> "idle", kind |-> "none", username |-> "None", email |-> "None",
     role |-> NoRole, team_lead_username |-> "None", deleter |-> "None", status |-> 0]

\* the server processes (uvicorn workers) that share the index and UPLOAD_DIR
Procs == {1, 2}

\* a process before `import docs.vectorstore` has run
BootProc ==
    [pc |-> "boot", error |-> "none", role |-> NoRole, doc_id |-> 0, files |-> <<>>,
     pos |-> 0, save_path |-> UNBOUND, chunks |-> <<>>, i |-> 0, sent |-> <<>>,
     outcomes |-> <<>>]

\* a process whose module initialisation is over: index = pc.Index(...) is bound
ServingProc == [BootProc EXCEPT !.pc = "idle"]

\* no file at a path
NoContent == [docs |-> -1, chunks |-> <<>>, by |-> 0]

Init ==
    /\ users = {}
    /\ reqs = [r \in Requests |-> NoRequest]
    /\ backing = "ready"
    /\ procs = [p \in Procs |-> ServingProc]
    /\ disk = [path \in FileNames |-> NoContent]
    /\ index = {}
    /\ upload_dir = {}
    /\ call = IdleCall
    /\ uuid_count = 0
    /\ ncalls = 0
    /\ response = [op |-> "none"]
    /\ upserted_roles = {}
    /\ prev = [last |-> NoSnapshot, before |-> NoSnapshot]

\* an upload handler that does not look at the caller's role
upload_without_role_check(caller_role, access_role, nfiles) ==
    /\ ~call.active
    /\ ncalls < MaxCalls
    /\ IF access_role \notin VALID_ROLES
       THEN /\ response' = [op |-> "upload_hr_documents", status |-> 400,
                            detail |-> "Invalid role"]
            /\ UNCHANGED <<call, uuid_count, ncalls>>
       ELSE /\ uuid_count' = uuid_count + 1
            /\ ncalls' = ncalls + 1
            /\ call' = NewCall("endpoint", access_role, uuid_count + 1, nfiles)
            /\ response' = [op |-> "upload_started", doc_id |-> uuid_count + 1,
                            role |-> access_role, files |-> nfiles]
    /\ UNCHANGED <<index, upload_dir, upserted_roles, prev, server_vars, auth_vars>>

\* POST /docs/upload_doc, up to the call of load_vectorstore_async;
\* doc_id = str(uuid.uuid4()) is a value not drawn before
upload_hr_documents(caller_role, access_role, nfiles) ==
    /\ ~call.active
    /\ ncalls < MaxCalls
    /\ IF caller_role # "HR Manager"
       THEN /\ response' = [op |-> "upload_hr_documents", status |-> 403,
                            detail |-> "Only HR Manager can upload documents"]
            /\ UNCHANGED <<call, uuid_count, ncalls>>
       ELSE IF access_role \notin VALID_ROLES
       THEN /\ response' = [op |-> "upload_hr_documents", status |-> 400,
                            detail |-> "Invalid role"]
            /\ UNCHANGED <<call, uuid_count, ncalls>>
       ELSE /\ uuid_count' = uuid_count + 1
            /\ ncalls' = ncalls + 1
            /\ IF access_role \notin valid_roles
               THEN /\ call' = IdleCall
                    /\ response' = [op |-> "upload_hr_documents", status |-> 500,
                                    detail |-> "Upload failed: Invalid role"]
               ELSE /\ call' = NewCall("endpoint", access_role, uuid_count + 1, nfiles)
                    /\ response' = [op |-> "upload_started", doc_id |-> uuid_count + 1,
                                    role |-> access_role, files |-> nfiles]
    /\ UNCHANGED <<index, upload_dir, upserted_roles, prev, server_vars, auth_vars>>

\* load_vectorstore_async called again by a caller that chooses doc_id itself
load_vectorstore_async(role, doc_id, nfiles) ==
    /\ ~call.active
    /\ ncalls < MaxCalls
    /\ ncalls' = ncalls + 1
    /\ IF role \notin valid_roles
       THEN /\ call' = IdleCall
            /\ response' = [op |-> "load_vectorstore_async", raised |-> "ValueError"]
       ELSE /\ call' = NewCall("direct", role, doc_id, nfiles)
            /\ response' = [op |-> "load_started", doc_id |-> doc_id, role |-> role,
                            files |-> nfiles]
    /\ UNCHANGED <<index, upload_dir, uuid_count, upserted_roles, prev, server_vars, auth_vars>>

\* the loop body of load_vectorstore_async for the next file of the call; an
\* exception that leaves the except clause ends the call (HTTP 500 at the endpoint)
ProcessFile(file, env) ==
    /\ call.active
    /\ call.pos < call.nfiles
    /\ LET r == process_file(index, upload_dir, call.save_path, file, call.role,
                             call.doc_id, env)
           mine == {v \in r.index : v.ns = call.role /\ v.doc_id = call.doc_id
                                    /\ v.source = file.filename}
       IN /\ index' = r.index
          /\ upload_dir' = r.upload_dir
          /\ upserted_roles' = IF r.index # index THEN upserted_roles \cup {call.role}
                               ELSE upserted_roles
          /\ IF r.outcome = "raised"
             THEN /\ call' = IdleCall
                  /\ prev' = Ended(prev, [call EXCEPT !.only_file = Only(call, file)],
                                    r.index, TRUE)
                  /\ response' =
                       IF call.via = "endpoint"
                       THEN [op |-> "upload_hr_documents", status |-> 500,
                             detail |-> "Upload failed: UnboundLocalError",
                             files |-> call.nfiles, processed |-> call.pos + 1]
                       ELSE [op |-> "load_vectorstore_async",
                             raised |-> "UnboundLocalError",
                             files |-> call.nfiles, processed |-> call.pos + 1]
             ELSE /\ call' = [call EXCEPT
                       !.pos = call.pos + 1,
                       !.save_path = r.save_path,
                       !.only_file = Only(call, file),
                       !.indexed = IF r.outcome = "indexed" THEN call.indexed \cup mine
                                   ELSE call.indexed,
                       !.chunks_ok = IF r.outcome = "indexed"
                                     THEN call.chunks_ok + Len(file.chunks)
                                     ELSE call.chunks_ok,
                       !.clean = call.clean /\ r.outcome = "indexed",
                       !.failed = call.failed \/ r.outcome = "failed"]
                  /\ prev' = prev
                  /\ response' = [op |-> "file", outcome |-> r.outcome]
    /\ UNCHANGED <<uuid_count, ncalls, server_vars, auth_vars>>

\* load_vectorstore_async returns; upload_hr_documents answers "success"
Return ==
    /\ call.active
    /\ call.pos = call.nfiles
    /\ call' = IdleCall
    /\ prev' = Ended(prev, call, index, call.failed)
    /\ response' =
         IF call.via = "endpoint"
         THEN [op |-> "upload_hr_documents", status |-> 200, doc_id |-> call.doc_id,
               file_count |-> call.nfiles, access_role |-> call.role]
         ELSE [op |-> "load_vectorstore_async", raised |-> "no"]
    /\ UNCHANGED <<index, upload_dir, uuid_count, ncalls, upserted_roles, server_vars, auth_vars>>

\* DELETE /docs/documents/{doc_id}
delete_document_group(doc_id, deleter_role) ==
    /\ response' =
         IF deleter_role \notin {"HR Executive", "HR Manager"}
         THEN [op |-> "delete_document_group", status |-> 403, doc_id |-> doc_id,
               detail |-> "Only HR Executive or HR Manager can delete documents"]
         ELSE [op |-> "delete_document_group", status |-> 200, doc_id |-> doc_id,
               message |-> "deleted successfully"]
    /\ UNCHANGED <<index, upload_dir, call, uuid_count, ncalls, upserted_roles, prev, server_vars, auth_vars>>

\* POST /chat by an authenticated user of role user_role
Chat(message, user_role, fault, content) ==
    /\ \E matches \in index_query(index, top_k, user_role) :
          response' = post_chat(message, user_role,
                                [fault |-> fault, matches |-> matches, content |-> content])
    /\ UNCHANGED <<index, upload_dir, call, uuid_count, ncalls, upserted_roles, prev, server_vars, auth_vars>>

DocIds == 1..MaxCalls

Upload == \E caller_role \in Roles, access_role \in AccessRoleInputs, n \in 1..MaxFiles :
             upload_hr_documents(caller_role, access_role, n)

Rerun == \E role \in AccessRoleInputs, doc_id \in DocIds, n \in 1..MaxFiles :
             load_vectorstore_async(role, doc_id, n)

File == \E file \in Files : \E env \in IngestEnvs(file) : ProcessFile(file, env)

Delete == \E doc_id \in DocIds, deleter_role \in Roles :
             delete_document_group(doc_id, deleter_role)

Ask == \E message \in Messages, user_role \in Roles, fault \in QueryFaults,
          content \in LLMContents : Chat(message, user_role, fault, content)

Next == Upload \/ File \/ Return \/ Delete \/ Ask

Spec == Init /\ [][Next]_vars

\* the ingestion pipeline alone, its entry point also called with a chosen doc_id
NextRerun == Upload \/ Rerun \/ File \/ Return

SpecRerun == Init /\ [][NextRerun]_vars


\* ------------------------------------- the server processes, step by step
\* Two server processes import docs.vectorstore and then serve one upload
\* call each.  A step is the code between two awaits (or two calls to an
\* outside service), so the steps of the two calls interleave the way the
\* event loop, or two workers, interleave them.
Step(pr, dir, dsk, idx) == [proc |-> pr, upload_dir |-> dir, disk |-> dsk, index |-> idx]

\* `continue`, or the end of the loop body: on to the next file, or return
next_file(pr, outcome) ==
    [pr EXCEPT !.pos = pr.pos + 1,
               !.pc = IF pr.pos + 1 = Len(pr.files) THEN "returned" ELSE "save",
               !.outcomes = Append(pr.outcomes, outcome)]

\* os.remove(path)
os_remove(dsk, path) == [dsk EXCEPT ![path] = NoContent]

\* an except clause that only logs
except_no_cleanup(pr, dir, dsk, idx) ==
    IF pr.save_path = UNBOUND
    THEN Step([pr EXCEPT !.pc = "raised", !.error = "UnboundLocalError"], dir, dsk, idx)
    ELSE Step(next_file(pr, "failed"), dir, dsk, idx)

\* except Exception as e: if save_path.exists(): os.remove(save_path); continue
except_clause(pr, dir, dsk, idx) ==
    IF pr.save_path = UNBOUND
    THEN Step([pr EXCEPT !.pc = "raised", !.error = "UnboundLocalError"], dir, dsk, idx)
    ELSE Step(next_file(pr, "failed"), dir \ {pr.save_path}, os_remove(dsk, pr.save_path), idx)

\* lines 85-88: save_path = UPLOAD_DIR / file.filename; await save_uploaded_file_async
save_uploaded_file_async(p, pr, dir, dsk, idx, fault) ==
    LET file == pr.files[pr.pos + 1]
        path == file.filename
        pr1 == [pr EXCEPT !.save_path = path, !.chunks = <<>>, !.i = 0, !.sent = <<>>]
    IN  IF file.filename = None THEN except_clause(pr, dir, dsk, idx)
        ELSE IF fault = "save" THEN except_clause(pr1, dir, dsk, idx)
        ELSE IF fault = "save_partial"
        THEN except_clause(pr1, dir \cup {path},
                           [dsk EXCEPT ![path] = [docs |-> 0, chunks |-> <<>>, by |-> p]], idx)
        ELSE Step([pr1 EXCEPT !.pc = "load"], dir \cup {path},
                  [dsk EXCEPT ![path] = [docs |-> file.docs, chunks |-> file.chunks, by |-> p]],
                  idx)

\* lines 91-128: loader.load reads the file at save_path, the splitter chunks it
load_and_split(pr, dir, dsk, idx, fault) ==
    LET path == pr.save_path
    IN  IF fault = "load" \/ path \notin dir THEN except_clause(pr, dir, dsk, idx)
        ELSE IF dsk[path].docs = 0
        THEN Step(next_file(pr, "no_documents"), dir \ {path}, os_remove(dsk, path), idx)
        ELSE IF fault = "split" THEN except_clause(pr, dir, dsk, idx)
        ELSE IF dsk[path].chunks = <<>>
        THEN Step(next_file(pr, "no_chunks"), dir \ {path}, os_remove(dsk, path), idx)
        ELSE Step([pr EXCEPT !.pc = "embed", !.chunks = dsk[path].chunks], dir, dsk, idx)

\* lines 130-138: the embedding loop
embed_chunks(pr, dir, dsk, idx, fault) ==
    IF fault = "embed" THEN except_clause(pr, dir, dsk, idx)
    ELSE Step([pr EXCEPT !.pc = "upsert"], dir, dsk, idx)

\* the vectors of the file in hand
vectors_in_hand(pr) ==
    vectors_of([pr.files[pr.pos + 1] EXCEPT !.chunks = pr.chunks], pr.role, pr.doc_id)

\* lines 145-158: one turn of the upsert loop; after the last one, os.remove(save_path)
upsert_next_batch(pr, dir, dsk, idx, fault) ==
    LET vectors == vectors_in_hand(pr)
        k == pr.i + 1
        batch == batch_at(vectors, k)
        pr1 == [pr EXCEPT !.i = k, !.sent = Append(pr.sent, batch)]
        idx1 == upsert(idx, batch, pr.role)
    IN  IF fault = "upsert" THEN except_clause(pr, dir, dsk, idx)
        ELSE IF k < num_batches(Len(vectors)) THEN Step(pr1, dir, dsk, idx1)
        ELSE IF pr.save_path \in dir
        THEN Step(next_file(pr1, "indexed"), dir \ {pr.save_path},
                  os_remove(dsk, pr.save_path), idx1)
        ELSE except_clause(pr1, dir, dsk, idx1)         \* FileNotFoundError

Apply(p, r) ==
    /\ procs' = [procs EXCEPT ![p] = r.proc]
    /\ upload_dir' = r.upload_dir
    /\ disk' = r.disk
    /\ index' = r.index
    /\ UNCHANGED <<backing, call, uuid_count, ncalls, response, upserted_roles, prev,
                   auth_vars>>

\* line 41: PINECONE_INDEX_NAME not in pc.list_indexes().names()
list_indexes(p) ==
    /\ procs[p].pc = "boot"
    /\ procs' = [procs EXCEPT ![p].pc = IF backing = "absent" THEN "create" ELSE "idle"]
    /\ UNCHANGED <<index, upload_dir, call, uuid_count, ncalls, response, upserted_roles,
                   prev, backing, disk, auth_vars>>

\* line 43: pc.create_index(name=...) answers 409 ALREADY_EXISTS for a name in use
create_index(p) ==
    /\ procs[p].pc = "create"
    /\ IF backing = "absent"
       THEN /\ backing' = "creating"
            /\ procs' = [procs EXCEPT ![p].pc = "wait"]
       ELSE /\ backing' = backing
            /\ procs' = [procs EXCEPT ![p].pc = "crashed", ![p].error = "ALREADY_EXISTS"]
    /\ UNCHANGED <<index, upload_dir, call, uuid_count, ncalls, response, upserted_roles,
                   prev, disk, auth_vars>>

\* lines 50-53: the loop ends when describe_index reports ready
describe_index(p) ==
    /\ procs[p].pc = "wait"
    /\ backing' = "ready"
    /\ procs' = [procs EXCEPT ![p].pc = "idle"]
    /\ UNCHANGED <<index, upload_dir, call, uuid_count, ncalls, response, upserted_roles,
                   prev, disk, auth_vars>>

\* POST /docs/upload_doc by an HR Manager with a valid role, up to the first
\* file of load_vectorstore_async
upload_doc(p, access_role, files) ==
    /\ procs[p].pc = "idle"
    /\ procs[p].doc_id = 0
    /\ access_role \in VALID_ROLES /\ access_role \in valid_roles
    /\ uuid_count' = uuid_count + 1
    /\ procs' = [procs EXCEPT ![p].pc = "save", ![p].role = access_role,
                              ![p].doc_id = uuid_count + 1, ![p].files = files]
    /\ UNCHANGED <<index, upload_dir, call, ncalls, response, upserted_roles, prev,
                   backing, disk, auth_vars>>

save_file(p, fault) ==
    /\ procs[p].pc = "save"
    /\ Apply(p, save_uploaded_file_async(p, procs[p], upload_dir, disk, index, fault))

load_file(p, fault) ==
    /\ procs[p].pc = "load"
    /\ Apply(p, load_and_split(procs[p], upload_dir, disk, index, fault))

embed_file(p, fault) ==
    /\ procs[p].pc = "embed"
    /\ Apply(p, embed_chunks(procs[p], upload_dir, disk, index, fault))

upsert_file(p, fault) ==
    /\ procs[p].pc = "upsert"
    /\ Apply(p, upsert_next_batch(procs[p], upload_dir, disk, index, fault))

\* the files of the concurrent calls: one name, every kind of content
ConcFiles == {f \in Files : f.filename \in {None, <<"b">>} /\ f.chunks \in {<<>>, <<<<"a">>>>}}

ConcFileLists == UNION {[1..n -> ConcFiles] : n \in 1..MaxFiles}

\* the two calls have different target roles
ConcRole(p) == IF p = 1 THEN "Employee" ELSE "HR Manager"

InitConc ==
    /\ users = {}
    /\ reqs = [r \in Requests |-> NoRequest]
    /\ backing = "absent"
    /\ procs = [p \in Procs |-> BootProc]
    /\ disk = [path \in FileNames |-> NoContent]
    /\ index = {}
    /\ upload_dir = {}
    /\ call = IdleCall
    /\ uuid_count = 0
    /\ ncalls = 0
    /\ response = [op |-> "none"]
    /\ upserted_roles = {}
    /\ prev = [last |-> NoSnapshot, before |-> NoSnapshot]

List == \E p \in Procs : list_indexes(p)

Create == \E p \in Procs : create_index(p)

Ready == \E p \in Procs : describe_index(p)

Begin == \E p \in Procs, files \in ConcFileLists : upload_doc(p, ConcRole(p), files)

Save == \E p \in Procs, fault \in {"none", "save", "save_partial"} : save_file(p, fault)

Load == \E p \in Procs, fault \in {"none", "load", "split"} : load_file(p, fault)

Embed == \E p \in Procs, fault \in {"none", "embed"} : embed_file(p, fault)

UpsertBatch == \E p \in Procs, fault \in {"none", "upsert"} : upsert_file(p, fault)

NextConc == List \/ Create \/ Ready \/ Begin \/ Save \/ Load \/ Embed \/ UpsertBatch

SpecConc == InitConc /\ [][NextConc]_vars


\* ------------------------------------------- one call with one large file
\* the text of the i-th chunk of the large file
ChunkText(i) == IF i % 2 = 1 THEN <<"a">> ELSE <<"a", "b">>

\* a file that the splitter cuts into n chunks
LargeFile(n) == [filename |-> <<"b">>, docs |-> 1, chunks |-> [i \in 1..n |-> ChunkText(i)]]

BeginLarge == \E n \in 1..MaxVectors : upload_doc(1, "Employee", <<LargeFile(n)>>)

NextBatch == BeginLarge \/ Save \/ Load \/ Embed \/ UpsertBatch

SpecBatch == Init /\ [][NextBatch]_vars


\* ----------------------------------- chat over a partition of many passages
\* the text of the i-th stored passage: a word, a whitespace-only text, a
\* word with whitespace around it
StoredText(kind, i) ==
    IF kind = "blank" THEN <<" ", " ">>
    ELSE CASE i % 3 = 1 -> <<"a">>
           [] i % 3 = 2 -> <<" ", " ">>
           [] OTHER -> <<" ", "a", "b", " ">>

StoredFile(kind, n) ==
    [filename |-> <<"b">>, docs |-> 1, chunks |-> [i \in 1..n |-> StoredText(kind, i)]]

StoredFiles == {StoredFile(kind, n) : kind \in {"mixed", "blank"}, n \in 1..MaxStored}

\* the state after one upload (doc_id 1, role Employee) of one file has returned
InitChat ==
    /\ users = {}
    /\ reqs = [r \in Requests |-> NoRequest]
    /\ \E file \in StoredFiles :
          index = process_file({}, {}, UNBOUND, file, "Employee", 1,
                               [fault |-> "none", batch |-> 1]).index
    /\ upload_dir = {}
    /\ call = IdleCall
    /\ uuid_count = 1
    /\ ncalls = 1
    /\ response = [op |-> "upload_hr_documents", status |-> 200, doc_id |-> 1,
                   file_count |-> 1, access_role |-> "Employee"]
    /\ upserted_roles = {"Employee"}
    /\ prev = [last |-> NoSnapshot, before |-> NoSnapshot]
    /\ backing = "ready"
    /\ procs = [p \in Procs |-> ServingProc]
    /\ disk = [path \in FileNames |-> NoContent]

\* the first chat request after the upload
FirstAsk == response.op = "upload_hr_documents" /\ Ask

NextChat == FirstAsk

SpecChat == InitChat /\ [][NextChat]_vars

\* ------------------------------- signup and delete_user, one step per await
\* the other handlers' state, left alone by the handlers of SERVER/auth
rag_vars == <<index, upload_dir, call, uuid_count, ncalls, response, upserted_roles, prev,
              server_vars>>

Usernames == {"u1", "u2"}
Emails == {"e1", "e2"}

\* a user collection that signups and verifications one after the other
\* lead to: three Team Leads and one HR Executive, all verified
Staff ==
    {[id |-> 10 + i, username |-> "t" \o ToString(i), email |-> "m" \o ToString(i),
      role |-> "Team Lead", is_verified |-> TRUE] : i \in 1..3}
    \cup {[id |-> 14, username |-> "x1", email |-> "m4", role |-> "HR Executive",
           is_verified |-> TRUE]}

\* the request bodies that pass SignUpRequest's validation: an Employee names
\* a team lead
SignUpRequests ==
    {[username |-> u, email |-> e, role |-> r, team_lead_username |-> t] :
        u \in Usernames, e \in Emails, r \in Roles \ {"Employee"}, t \in {"None"}}
    \cup {[username |-> u, email |-> e, role |-> r, team_lead_username |-> t] :
        u \in Usernames, e \in Emails, r \in {"Employee"}, t \in {"t1", "u1"}}

\* the request goes on to `pc`, or ends with `status`
Goes(r, pc) == [reqs EXCEPT ![r].pc = pc]
Ends(r, status) == [reqs EXCEPT ![r].pc = "done", ![r].status = status]

\* signup up to its first await: find_one by username or email, and the
\* 400 when a document comes back
signup_find_existing(r, req) ==
    /\ reqs[r].pc = "idle"
    /\ LET existing_user == {u \in users : u.username = req.username \/ u.email = req.email}
           started == [reqs EXCEPT ![r] =
                          [pc |-> "role", kind |-> "signup", username |-> req.username,
                           email |-> req.email, role |-> req.role,
                           team_lead_username |-> req.team_lead_username,
                           deleter |-> "None", status |-> 0]]
       IN  reqs' = IF existing_user # {}
                   THEN [started EXCEPT ![r].pc = "done", ![r].status = 400]
                   ELSE IF req.role = "HR Executive"
                        THEN [started EXCEPT ![r].pc = "insert"]
                        ELSE started
    /\ UNCHANGED <<users, rag_vars>>

\* the check of the request's role, one await: find_one for an HR Manager,
\* count_documents for a Team Lead, find_one of the team lead for an Employee
signup_check_role(r) ==
    /\ reqs[r].pc = "role"
    /\ LET req == reqs[r]
           count == Cardinality({u \in users : u.role = "Team Lead"})
           team_lead == {u \in users : u.username = req.team_lead_username
                                       /\ u.role = "Team Lead"}
           refused == CASE req.role = "HR Manager" ->
                               \E u \in users : u.role = "HR Manager"
                        [] req.role = "Team Lead" -> count >= max_team_leads
                        [] req.role = "Employee" -> team_lead = {}
                        [] OTHER -> FALSE
       IN  reqs' = IF refused THEN Ends(r, 400) ELSE Goes(r, "insert")
    /\ UNCHANGED <<users, rag_vars>>

\* insert_one(user_data): a new document (its _id is the request's number)
signup_insert_one(r) ==
    /\ reqs[r].pc = "insert"
    /\ users' = users \cup {[id |-> r, username |-> reqs[r].username,
                             email |-> reqs[r].email, role |-> reqs[r].role,
                             is_verified |-> FALSE]}
    /\ reqs' = Ends(r, 201)
    /\ UNCHANGED rag_vars

\* verify_email with the token that signup mailed to `email`: update_one
\* sets is_verified on one document of that email
verify_email(email) ==
    /\ \E user \in users : user.email = email /\ ~user.is_verified
    /\ \E doc \in users :
          /\ doc.email = email
          /\ users' = (users \ {doc}) \cup {[doc EXCEPT !.is_verified = TRUE]}
    /\ UNCHANGED <<reqs, rag_vars>>

\* get_current_user: authenticate finds one document of the caller's name;
\* the password is the caller's own
authenticate(r, username, deleter) ==
    /\ reqs[r].pc = "idle"
    /\ LET started == [reqs EXCEPT ![r] =
                          [NoRequest EXCEPT !.kind = "delete_user", !.username = username,
                                            !.deleter = deleter]]
       IN  IF \A u \in users : u.username # deleter
           THEN reqs' = [started EXCEPT ![r].pc = "done", ![r].status = 401]
           ELSE \E user \in users :
                   /\ user.username = deleter
                   /\ reqs' = IF ~user.is_verified
                              THEN [started EXCEPT ![r].pc = "done", ![r].status = 403]
                              ELSE [started EXCEPT ![r].pc = "find", ![r].role = user.role]
    /\ UNCHANGED <<users, rag_vars>>

\* delete_user up to its own first await: the deleter's role, the self-delete
\* check, find_one of the user to delete
delete_user_find_one(r) ==
    /\ reqs[r].pc = "find"
    /\ LET req == reqs[r]
       IN  reqs' = CASE req.role # "HR Executive" -> Ends(r, 403)
                     [] req.username = req.deleter -> Ends(r, 400)
                     [] \A u \in users : u.username # req.username -> Ends(r, 404)
                     [] OTHER -> Goes(r, "delete")
    /\ UNCHANGED <<users, rag_vars>>

\* delete_one by username: one document of that name goes, or none is left
delete_user_delete_one(r) ==
    /\ reqs[r].pc = "delete"
    /\ IF \A u \in users : u.username # reqs[r].username
       THEN /\ reqs' = Ends(r, 500)
            /\ UNCHANGED users
       ELSE \E doc \in users :
               /\ doc.username = reqs[r].username
               /\ users' = users \ {doc}
               /\ reqs' = Ends(r, 200)
    /\ UNCHANGED rag_vars

InitSignup ==
    /\ users \in {{}, Staff}
    /\ reqs = [r \in Requests |-> NoRequest]
    /\ backing = "ready"
    /\ procs = [p \in Procs |-> ServingProc]
    /\ disk = [path \in FileNames |-> NoContent]
    /\ index = {}
    /\ upload_dir = {}
    /\ call = IdleCall
    /\ uuid_count = 0
    /\ ncalls = 0
    /\ response = [op |-> "none"]
    /\ upserted_roles = {}
    /\ prev = [last |-> NoSnapshot, before |-> NoSnapshot]

FindExisting == \E r \in Requests, req \in SignUpRequests : signup_find_existing(r, req)

CheckRole == \E r \in Requests : signup_check_role(r)

InsertOne == \E r \in Requests : signup_insert_one(r)

VerifyEmail == \E email \in Emails \cup {"m4"} : verify_email(email)

Authenticate ==
    \E r \in Requests, username \in {"t1", "u1"}, deleter \in {"x1", "u1"} :
        authenticate(r, username, deleter)

FindOne == \E r \in Requests : delete_user_find_one(r)

DeleteOne == \E r \in Requests : delete_user_delete_one(r)

NextSignup ==
    FindExisting \/ CheckRole \/ InsertOne \/ VerifyEmail \/ Authenticate \/ FindOne
        \/ DeleteOne

SpecSignup == InitSignup /\ [][NextSignup]_vars


\* ============================================================== claims
ChatAnswered == response.op = "hr_chat" /\ response.status \notin {400, 422}

\* C1: partition isolation.  Every match that answer_query uses for a user of
\* role R2 was upserted by an ingestion call whose target role was R2: a
\* passage ingested for another role R1 is never among the matches.
C1_PartitionIsolation ==
    ChatAnswered =>
        \A i \in 1..Len(response.matches) : response.matches[i].role = response.user_role

C1_Witness ==
    /\ ChatAnswered
    /\ response.matches # <<>>
    /\ \E v \in index : v.role # response.user_role

\* C2: a delete-document-group request for doc_id B that is answered with
\* success leaves no passage of batch B in the index.
C2_DeleteRemovesBatch ==
    (response.op = "delete_document_group" /\ response.status = 200) =>
        \A v \in index : v.doc_id # response.doc_id

\* C3 as stated: for a role whose partition never received an upsert,
\* answer_query returns exactly the fallback answer with no sources and does
\* not call the language model.
C3_EmptyPartitionFallback ==
    (ChatAnswered /\ response.user_role \notin upserted_roles) =>
        /\ response.status = 200
        /\ response.answer = <<FALLBACK_ANSWER>>
        /\ response.sources = <<>>
        /\ ~response.llm_called

\* C3 amended: for a role whose partition never received an upsert,
\* answer_query never calls the language model and returns no sources; its
\* answer is exactly the fallback answer when the query embedding and the
\* index query succeed, and exactly the fixed failure answer when one fails.
C3_EmptyPartitionFallbackOrFailure ==
    (ChatAnswered /\ response.user_role \notin upserted_roles) =>
        /\ response.status = 200
        /\ response.sources = <<>>
        /\ ~response.llm_called
        /\ response.answer = IF response.failed THEN <<FAILURE_ANSWER>>
                                                ELSE <<FALLBACK_ANSWER>>

C3_Witness ==
    /\ ChatAnswered
    /\ response.user_role \notin upserted_roles
    /\ index # {}
    /\ ~response.failed
    /\ response.answer = <<FALLBACK_ANSWER>>

\* C4: answer_query never raises to hr_chat: the chat request is answered
\* with status 200, and when the embedding, the index query or the language
\* model failed the answer is exactly the fixed failure answer with no sources.
C4_NeverRaises ==
    ChatAnswered =>
        /\ response.status = 200
        /\ response.failed =>
              /\ response.answer = <<FAILURE_ANSWER>>
              /\ response.sources = <<>>

C4_Witness ==
    /\ ChatAnswered
    /\ response.failed
    /\ response.llm_called
    /\ response.answer = <<FAILURE_ANSWER>>

\* C5: passage ids are unique, so once every file of an upload call has been
\* indexed the partition holds one passage of that batch per chunk of every file.
C5_OnePassagePerChunk ==
    (call.active /\ call.pos = call.nfiles /\ call.clean) =>
        Cardinality({v \in index : v.ns = call.role /\ v.doc_id = call.doc_id})
            = call.chunks_ok

\* C6: every stored passage's role metadata is the name of the namespace it is
\* stored in, and that name is Employee, Team Lead, HR Executive or HR Manager.
C6_RoleIsNamespace ==
    \A v \in index :
        /\ v.role = v.ns
        /\ v.ns \in {"Employee", "Team Lead", "HR Executive", "HR Manager"}

C6_Witness ==
    /\ index # {}
    /\ response.op = "load_vectorstore_async"
    /\ response.raised = "ValueError"

SameRun(a, b) ==
    /\ a.valid /\ b.valid
    /\ a.doc_id = b.doc_id /\ a.role = b.role /\ a.only_file = b.only_file

EndsWith(s, suffix) ==
    /\ Len(suffix) <= Len(s)
    /\ SubSeq(s, Len(s) - Len(suffix) + 1, Len(s)) = suffix

\* C8: in a result that the language model produced, sources lists the sources
\* of the matched passages with non-blank text, each once, in ascending
\* order, and the answer ends with the Sources line listing that same list.
C8_SourcesSortedOnce ==
    (ChatAnswered /\ response.llm_called /\ ~response.failed) =>
        LET m == response.matches
            expected == {m[i].source : i \in {j \in 1..Len(m) : Strip(m[j].text) # <<>>}}
            src == response.sources
        IN /\ Range(src) = expected
           /\ \A i, j \in 1..Len(src) : i < j => StrLess(src[i], src[j])
           /\ EndsWith(response.answer, <<SOURCES_PREFIX>> \o join(src))

C8_Witness ==
    /\ ChatAnswered /\ response.llm_called /\ ~response.failed
    /\ Len(response.matches) = 2
    /\ response.matches[1].source = response.matches[2].source
    /\ Strip(response.matches[1].text) # <<>>
    /\ Strip(response.matches[2].text) # <<>>
    /\ Len(response.sources) = 1

\* C9: a failure on one file never raises out of load_vectorstore_async, so
\* the upload is never answered with "Upload failed" before every file of the
\* call has been processed.
C9_FileFailureNeverEscapes ==
    response.op = "upload_hr_documents" => response.status # 500

\* C10: a passage upserted for a file that was indexed successfully earlier in
\* the call is still stored, with its text and source, while later files of
\* the call fail or are processed.
C10_PartialSuccessRetained ==
    call.active => \A v \in call.indexed : v \in index

\* C11: when load_vectorstore_async has returned, no temporary copy of a file
\* of that call is left under the upload directory, whether the file was
\* indexed, skipped or failed; and once no call is working on a file the
\* upload directory is empty.
C11_TransientCleanup ==
    /\ \A p \in Procs :
          procs[p].pc = "returned" =>
             \A j \in 1..Len(procs[p].files) :
                LET path == procs[p].files[j].filename
                IN path \in upload_dir => disk[path].by # p
    /\ (\A p \in Procs : procs[p].pc \notin {"load", "embed", "upsert"}) => upload_dir = {}

C11_Witness ==
    \E p \in Procs :
        /\ procs[p].pc = "returned"
        /\ procs[p].outcomes = <<"failed", "indexed">>
        /\ upload_dir = {}
        /\ index # {}

\* C12: an ingestion request whose target role is not a role is rejected (400
\* at the endpoint for an HR Manager, ValueError in load_vectorstore_async)
\* and starts no call: nothing is written under the upload directory and the
\* index is unchanged.
C12_InvalidRoleRejected ==
    [][\A access_role \in AccessRoleInputs \ {"Employee", "Team Lead", "HR Executive", "HR Manager"} :
          /\ (\E n \in 1..MaxFiles : upload_hr_documents("HR Manager", access_role, n)) =>
                /\ response'.op = "upload_hr_documents"
                /\ response'.status = 400
                /\ ~call'.active
                /\ UNCHANGED <<index, upload_dir, disk>>
          /\ (\E doc_id \in DocIds, n \in 1..MaxFiles :
                 load_vectorstore_async(access_role, doc_id, n)) =>
                /\ response'.op = "load_vectorstore_async"
                /\ response'.raised = "ValueError"
                /\ ~call'.active
                /\ UNCHANGED <<index, upload_dir, disk>>]_vars

C12_Witness ==
    /\ response.op = "upload_hr_documents"
    /\ response.status = 400
    /\ index # {}

\* the message of a chat request, as far as its response tells: the message
\* of a rejected request, the trimmed message of one that reached answer_query
MessageOf(r) == IF "message" \in DOMAIN r THEN r.message ELSE r.query

Rejected(r) == DOMAIN r = {"op", "status", "detail", "message"}

\* C13 as stated: a chat request whose message is empty or whitespace-only
\* is rejected with HTTP 400, with nothing that answer_query produces.
C13_BlankMessageRejected ==
    (response.op = "hr_chat" /\ Strip(MessageOf(response)) = <<>>) =>
        /\ response.status = 400
        /\ Rejected(response)

\* C13 amended: a chat request whose message is whitespace-only is rejected
\* with HTTP 400 and one whose message is empty with HTTP 422; in both cases
\* the response holds nothing that answer_query produces, and answer_query
\* is only ever called with a message that is not empty after trimming.
C13_BlankMessageNeverAnswered ==
    (response.op = "hr_chat" /\ Strip(MessageOf(response)) = <<>>) =>
        /\ response.status = IF MessageOf(response) = <<>> THEN 422 ELSE 400
        /\ Rejected(response)

C13_Witness ==
    /\ response.op = "hr_chat"
    /\ response.status = 400
    /\ response.message # <<>>
    /\ \E r \in Roles : Namespace(index, r) # {}

\* C14: when two server processes start while the index does not exist, no
\* process fails with a duplicate-creation error.
C14_NoDuplicateCreation ==
    \A p \in Procs : procs[p].error # "ALREADY_EXISTS"

\* C15: the passages a call upserts are derived only from that call's own
\* files: each stored passage of a call's batch carries the text of a chunk
\* of the call's file of that name.
C15_CallsIndependent ==
    \A p \in Procs : \A v \in index :
        (procs[p].doc_id # 0 /\ v.doc_id = procs[p].doc_id) =>
            \E j \in 1..Len(procs[p].files) :
                /\ procs[p].files[j].filename = v.source
                /\ v.text \in Range(procs[p].files[j].chunks)

\* C16: an upload request from a user whose role is not HR Manager is
\* answered with 403 and starts no ingestion call; the index is unchanged.
C16_OnlyManagerUploads ==
    [][\A caller_role \in Roles \ {"HR Manager"} :
          (\E access_role \in AccessRoleInputs, n \in 1..MaxFiles :
              upload_hr_documents(caller_role, access_role, n)) =>
             /\ response'.op = "upload_hr_documents"
             /\ response'.status = 403
             /\ ~call'.active
             /\ UNCHANGED <<index, upload_dir, ncalls, uuid_count>>]_vars

C16_Witness ==
    /\ response.op = "upload_hr_documents"
    /\ response.status = 403
    /\ index # {}

\* C18: whenever an HR Manager's upload with a valid role ends, the response
\* is the success response and its file_count is the number of files
\* submitted, however many of them failed or were skipped.
C18_AggregateSuccess ==
    [][(call.active /\ call.via = "endpoint" /\ ~call'.active) =>
          /\ response'.op = "upload_hr_documents"
          /\ response'.status = 200
          /\ response'.file_count = call.nfiles]_vars

\* C19: a file whose processing failed at some step leaves none of its
\* passages in the partition.
C19_FailedFileLeavesNothing ==
    \A p \in Procs : \A j \in 1..Len(procs[p].outcomes) :
        procs[p].outcomes[j] = "failed" =>
            ~\E v \in index : /\ v.ns = procs[p].role
                              /\ v.doc_id = procs[p].doc_id
                              /\ v.source = procs[p].files[j].filename

RECURSIVE Concat(_)
Concat(batches) == IF batches = <<>> THEN <<>> ELSE Head(batches) \o Concat(Tail(batches))

\* the least c with c * 100 >= n
Ceil100(n) == CHOOSE c \in 0..n : c * 100 >= n /\ (c - 1) * 100 < n

\* the (id, embedding, metadata) triples of a file's chunks, in chunk order
Triples(pr, file, chunks) ==
    [i \in 1..Len(chunks) |->
        [id |-> <<pr.doc_id, i - 1>>, values |-> <<"embedding", chunks[i]>>,
         metadata |-> [text |-> chunks[i], source |-> file.filename,
                       doc_id |-> pr.doc_id, role |-> pr.role]]]

\* C20: every upsert call carries between 1 and 100 vectors; the calls made
\* so far for a file are its triples in chunk order, each once; and when the
\* file is indexed exactly ceil(n/100) calls were made and they carry all n.
C20_BatchedUpserts ==
    \A p \in Procs :
        LET pr == procs[p]
            upserting == pr.pc = "upsert"
            indexed == /\ pr.pc \in {"save", "returned"}
                       /\ pr.outcomes # <<>>
                       /\ pr.outcomes[Len(pr.outcomes)] = "indexed"
        IN (upserting \/ indexed) =>
              LET file == pr.files[IF upserting THEN pr.pos + 1 ELSE pr.pos]
                  triples == Triples(pr, file, pr.chunks)
                  n == Len(triples)
                  all == Concat(pr.sent)
              IN /\ \A k \in 1..Len(pr.sent) : Len(pr.sent[k]) \in 1..100
                 /\ Len(pr.sent) <= Ceil100(n)
                 /\ Len(all) <= n
                 /\ all = SubSeq(triples, 1, Len(all))
                 /\ indexed => (Len(pr.sent) = Ceil100(n) /\ all = triples)

C20_Witness ==
    /\ procs[1].pc = "returned"
    /\ procs[1].outcomes = <<"indexed">>
    /\ Len(procs[1].sent) = 3
    /\ Len(procs[1].sent[3]) = 1

\* the transient copy of the file that process p has in hand is there
HasCopy(p) == procs[p].save_path \in upload_dir

\* C21: within one file, the transient copy is deleted only after every upsert
\* batch of the file has completed or the file has been reported failed, and
\* no upsert for a file is issued after its transient copy was removed.
C21_DeleteAfterUpserts ==
    [][\A p \in Procs :
          /\ Len(procs'[p].sent) > Len(procs[p].sent) => HasCopy(p)
          /\ (procs[p].pc \in {"load", "embed", "upsert"} /\ HasCopy(p) /\ ~HasCopy(p)') =>
                /\ Len(procs'[p].outcomes) > Len(procs[p].outcomes)
                /\ procs'[p].outcomes[Len(procs'[p].outcomes)] = "indexed" =>
                      Len(procs'[p].sent) = num_batches(Len(procs'[p].chunks))]_vars

NonBlank(match) == Strip(match.text) # <<>>

\* the trimmed texts of the matches, in their order, with a blank line between
RECURSIVE BlankLineJoined(_)
BlankLineJoined(m) ==
    IF Len(m) = 1 THEN Strip(m[1].text)
    ELSE BlankLineJoined(SubSeq(m, 1, Len(m) - 1)) \o <<"\n", "\n">> \o Strip(m[Len(m)].text)

\* C22: at most 5 matches are used; when every matched passage is empty after
\* trimming, the answer is the fallback answer with no sources and the
\* language model is not called; otherwise the context given to the language
\* model is the trimmed non-empty texts in ranking order, joined by blank lines.
C22_ContextAssembly ==
    (ChatAnswered /\ ~(response.failed /\ ~response.llm_called)) =>
        LET kept == SelectSeq(response.matches, NonBlank)
        IN /\ Len(response.matches) <= 5
           /\ kept = <<>> =>
                 /\ response.answer = <<FALLBACK_ANSWER>>
                 /\ response.sources = <<>>
                 /\ ~response.llm_called
           /\ kept # <<>> =>
                 /\ response.llm_called
                 /\ response.context = BlankLineJoined(kept)

C22_Witness ==
    /\ ChatAnswered /\ response.llm_called /\ ~response.failed
    /\ Cardinality(Namespace(index, response.user_role)) = 6
    /\ Len(response.matches) = 5
    /\ ~NonBlank(response.matches[1])
    /\ Len(SelectSeq(response.matches, NonBlank)) = 3
    /\ response.matches[2].text # response.matches[5].text

\* C23: the index changes only in a step of an ingestion call in flight, and
\* then only in the partition of the call's target role; a chat request and a
\* delete request change no partition.
C23_Frame ==
    [][/\ index' # index =>
             /\ call.active
             /\ call'.pos = call.pos + 1 \/ ~call'.active
             /\ \A v \in (index' \ index) \cup (index \ index') : v.ns = call.role
       /\ response'.op \in {"hr_chat", "delete_document_group"} => index' = index]_vars

C23_Witness ==
    /\ ChatAnswered
    /\ call.active
    /\ call.role # response.user_role
    /\ \E v, w \in index : v.ns # w.ns

\* C24: in every reachable state of the user collection, under any
\* interleaving of signup and delete-user requests, at most one user has
\* role HR Manager, at most 4 users have role Team Lead, and no two users
\* share a username or an email.
C24_RoleCapsAndUniqueness ==
    /\ Cardinality({u \in users : u.role = "HR Manager"}) <= 1
    /\ Cardinality({u \in users : u.role = "Team Lead"}) <= 4
    /\ \A u, v \in users : u # v => u.username # v.username /\ u.email # v.email

====
